---- MODULE Spec2Model ----
(***************************************************************************)
(* Restaurant ordering backend: add-to-cart (POST /api/cart), checkout     *)
(* (POST /api/customer/checkout) and payment confirmation                  *)
(* (POST /api/customer/orders/[code]) as request handlers running          *)
(* concurrently against one relational store, and the order detail         *)
(* (GET /api/customer/orders/[code]).  Every handler is split at           *)
(* its database round trips (its awaits); a $transaction stages its writes *)
(* and makes them visible at its commit.                                   *)
(***************************************************************************)
EXTENDS Integers, Sequences, FiniteSets, TLC

\* ------------------------------------------------------------- bounds
MaxAdds == 2
MaxCheckouts == 2
MaxConfirms == 2
MaxInFlight == 2
MaxQty == 1
InitStock == 1
MaxDay == 1
MaxEvents == 1
MaxGets == 1
MaxCartQty == 2

Products == {"A", "B"}
Customers == {"u1", "u2"}
PaymentChoices == {"CASH", "CASHLESS"}
AddIds == 1..MaxAdds
CheckoutIds == 1..MaxCheckouts
ConfirmIds == 1..MaxConfirms
GetIds == 1..MaxGets

\* A request with no resolvable identity (getCurrentUser gives no id).
Anonymous == "anon"
Callers == Customers \cup {Anonymous}

\* The catalog's prices at the start, and the prices an edit can set.
InitPrice == [p \in Products |-> IF p = "A" THEN 25000 ELSE 15000]
EditPrice == [p \in Products |-> IF p = "A" THEN 27000 ELSE 16000]

\* closedAt of an order that is not closed (null).
NoTime == -1

\* ------------------------------------------------------------- state
VARIABLES
  today,      \* the calendar day of the server's clock
  product,    \* Product rows: [price, stock, isActive]
  carts,      \* Cart row of each customer with its CartItem rows (id 0: none)
  nextCartId, \* the next fresh Cart id
  orders,     \* committed Order rows with their OrderItem rows, in commit order
  events,     \* midnights and catalog edits so far
  addReq,     \* POST /api/cart requests
  coReq,      \* POST /api/customer/checkout requests
  cfReq,      \* POST /api/customer/orders/[code] requests
  getReq,     \* GET /api/customer/orders/[code] requests
  snap        \* the requests sent to the payment gateway (Snap)

vars == <<today, product, carts, nextCartId, orders, events, addReq, coReq, cfReq,
          getReq, snap>>
db == <<product, carts, nextCartId, orders>>

NoCart == [id |-> 0, items |-> <<>>]
NoResp == [status |-> 0, body |-> "pending"]
NoCreated == [id |-> <<>>, code |-> <<>>, total |-> 0]

\* A request that has not arrived: its locals hold nothing yet.
IdleAdd ==
  [pc |-> "idle", user |-> "u1", productId |-> "A", qty |-> 1,
   cartId |-> 0, existing |-> 0, existingQty |-> 0, resp |-> NoResp]
IdleCheckout ==
  [pc |-> "idle", user |-> "u1", pay |-> "CASH", cartId |-> 0,
   items |-> <<>>, subtotal |-> 0, total |-> 0, queueNumber |-> <<>>,
   txOrder |-> <<>>, created |-> NoCreated, logged |-> "none", resp |-> NoResp]
IdleConfirm ==
  [pc |-> "idle", code |-> <<>>, orderId |-> <<>>, items |-> <<>>, i |-> 1,
   locked |-> {}, txStock |-> [p \in Products |-> 0],
   logged |-> "none", resp |-> NoResp]

IdleGet ==
  [pc |-> "idle", caller |-> Anonymous, code |-> <<>>,
   resp |-> [status |-> 0, body |-> [error |-> "pending"]]]

\* A request that has returned: its locals are gone; what stays is what left
\* the handler (the response, the error it logged, the order it created, the
\* code it was asked to confirm).
AddDone(status, body) ==
  [IdleAdd EXCEPT !.pc = "done", !.resp = [status |-> status, body |-> body]]
CheckoutDone(user, created, logged, status, body) ==
  [IdleCheckout EXCEPT !.pc = "done", !.user = user, !.created = created, !.logged = logged,
                       !.resp = [status |-> status, body |-> body]]
ConfirmDone(code, logged, status, body) ==
  [IdleConfirm EXCEPT !.pc = "done", !.code = code, !.logged = logged,
                      !.resp = [status |-> status, body |-> body]]

\* ------------------------------------------------------------- helpers
RECURSIVE Digits(_)
\* String(n): the decimal digits of n.
Digits(n) == IF n < 10 THEN <<n>> ELSE Digits(n \div 10) \o <<n % 10>>

\* s.padStart(width, "0")
PadStart(s, width) ==
  IF Len(s) >= width THEN s ELSE [i \in 1..(width - Len(s)) |-> 0] \o s

\* Orders whose createdAt lies in [startOfDay, endOfDay] of day d.
CountOn(os, d) == Cardinality({i \in 1..Len(os) : os[i].createdAt = d})

\* getTodayQueueNumber: count of today's committed orders + 1, three digits.
getTodayQueueNumber == PadStart(Digits(CountOn(orders, today) + 1), 3)

\* makeOrderCode: ORD-YYYYMMDD-NNN with the clock's date.
makeOrderCode(queueNumber) == <<"ORD", today>> \o queueNumber

\* The order id generated for the order a checkout request creates (a uuid:
\* unique per created row), as a string of characters.
NewOrderId(r) == <<r>> \o [i \in 1..8 |-> 0]

RECURSIVE SumSeq(_)
SumSeq(s) == IF s = <<>> THEN 0 ELSE Head(s) + SumSeq(Tail(s))

\* cart.items.reduce((s, it) => s + it.product.price * it.qty, 0)
Subtotal(items) == SumSeq([i \in 1..Len(items) |-> items[i].price * items[i].qty])

\* Mutant of FirstInvalid: the loop without its stock comparison.
FirstInvalidActiveOnly(items) ==
  LET bad == {i \in 1..Len(items) : ~items[i].isActive}
  IN IF bad = {} THEN 0 ELSE CHOOSE i \in bad : \A j \in bad : i <= j

\* Mutant of FirstInvalid: the loop reports the last failing line.
FirstInvalidLast(items) ==
  LET bad == {i \in 1..Len(items) :
                \/ ~items[i].isActive
                \/ items[i].qty > items[i].stock}
  IN IF bad = {} THEN 0 ELSE CHOOSE i \in bad : \A j \in bad : i >= j

\* The validation loop: index of the first line that fails, 0 when none does.
FirstInvalid(items) ==
  LET bad == {i \in 1..Len(items) :
                \/ ~items[i].isActive
                \/ items[i].qty > items[i].stock}
  IN IF bad = {} THEN 0 ELSE CHOOSE i \in bad : \A j \in bad : i <= j

\* The 409 body of the line that failed validation.
InvalidBody(it) == IF ~it.isActive THEN "tidak tersedia" ELSE "tidak mencukupi"

\* The snapshot of cart.findUnique: each line with its product's fields.
Snapshot(cart) ==
  [i \in 1..Len(cart.items) |->
     [productId |-> cart.items[i].productId,
      qty |-> cart.items[i].qty,
      price |-> product[cart.items[i].productId].price,
      stock |-> product[cart.items[i].productId].stock,
      isActive |-> product[cart.items[i].productId].isActive]]

\* Requests being served.
InFlightAdd == {r \in AddIds : addReq[r].pc \notin {"idle", "done"}}
InFlightCheckout == {r \in CheckoutIds : coReq[r].pc \notin {"idle", "done"}}
InFlightConfirm == {r \in ConfirmIds : cfReq[r].pc \notin {"idle", "done"}}
InFlight == Cardinality(InFlightAdd) + Cardinality(InFlightCheckout)
              + Cardinality(InFlightConfirm)

\* Checkouts that chose CASHLESS so far (the gateway is theirs alone).
Cashless ==
  Cardinality({r \in CheckoutIds :
                 \/ coReq[r].pay = "CASHLESS"
                 \/ coReq[r].resp.body \in
                      {"CASHLESS", "MIDTRANS_SERVER_KEY tidak dikonfigurasi."}
                 \/ coReq[r].logged = "gateway"})

\* What the environment has done so far, against MaxEvents: midnights,
\* catalog edits and checkouts taken to the payment gateway.
ExternalEvents == events + Cashless

\* A request may arrive: the server has a free slot, and requests of one
\* kind are numbered in their order of arrival.
MayArriveAdd(r) ==
  /\ addReq[r].pc = "idle"
  /\ r > 1 => addReq[r - 1].pc # "idle"
  /\ InFlight < MaxInFlight
MayArriveCheckout(r) ==
  /\ coReq[r].pc = "idle"
  /\ r > 1 => coReq[r - 1].pc # "idle"
  /\ InFlight < MaxInFlight
MayArriveConfirm(r) ==
  /\ cfReq[r].pc = "idle"
  /\ r > 1 => cfReq[r - 1].pc # "idle"
  /\ InFlight < MaxInFlight

\* ------------------------------------------------------------- init
Init ==
  /\ today = 0
  /\ product = [p \in Products |->
                  [price |-> InitPrice[p], stock |-> InitStock, isActive |-> TRUE]]
  /\ carts = [u \in Customers |-> NoCart]
  /\ nextCartId = 1
  /\ orders = <<>>
  /\ events = 0
  /\ addReq = [r \in AddIds |-> IdleAdd]
  /\ coReq = [r \in CheckoutIds |-> IdleCheckout]
  /\ cfReq = [r \in ConfirmIds |-> IdleConfirm]
  /\ getReq = [g \in GetIds |-> IdleGet]
  /\ snap = {}

\* ------------------------------------------------------------- POST /api/cart
\* product.findUnique and the active check.
AddStart(r) ==
  /\ MayArriveAdd(r)
  /\ \E u \in Customers, p \in Products, q \in 1..MaxQty :
       addReq' = [addReq EXCEPT ![r] =
         IF ~product[p].isActive
         THEN AddDone(409, "Product not available")
         ELSE [@ EXCEPT !.pc = "ensure", !.user = u, !.productId = p, !.qty = q]]
  /\ UNCHANGED <<snap, getReq, today, product, carts, nextCartId, orders, events, coReq, cfReq>>

\* ensureCart: cart.upsert by customerId.
AddEnsureCart(r) ==
  /\ addReq[r].pc = "ensure"
  /\ LET u == addReq[r].user IN
     IF carts[u].id = 0
     THEN /\ carts' = [carts EXCEPT ![u] = [id |-> nextCartId, items |-> <<>>]]
          /\ nextCartId' = nextCartId + 1
          /\ addReq' = [addReq EXCEPT ![r].pc = "find", ![r].cartId = nextCartId]
     ELSE /\ addReq' = [addReq EXCEPT ![r].pc = "find", ![r].cartId = carts[u].id]
          /\ UNCHANGED <<carts, nextCartId>>
  /\ UNCHANGED <<snap, getReq, today, product, orders, events, coReq, cfReq>>

\* The CartItem rows of the cart with this id (none once the cart is deleted).
ItemsOfCart(u, cartId) ==
  IF carts[u].id = cartId /\ cartId # 0 THEN carts[u].items ELSE <<>>

\* cartItem.findFirst({cartId, productId}): the first matching row, 0 if none.
FindFirst(items, p) ==
  LET hit == {i \in 1..Len(items) : items[i].productId = p}
  IN IF hit = {} THEN 0 ELSE CHOOSE i \in hit : \A j \in hit : i <= j

AddFind(r) ==
  /\ addReq[r].pc = "find"
  /\ LET items == ItemsOfCart(addReq[r].user, addReq[r].cartId)
         k == FindFirst(items, addReq[r].productId)
     IN addReq' = [addReq EXCEPT ![r].pc = "write", ![r].existing = k,
                     ![r].existingQty = IF k = 0 THEN 0 ELSE items[k].qty]
  /\ UNCHANGED <<snap, getReq, today, product, carts, nextCartId, orders, events, coReq, cfReq>>

\* cartItem.update({qty: existing.qty + qty}) or cartItem.create; either
\* throws when the cart (and with it the row) has been deleted meanwhile.
AddWrite(r) ==
  /\ addReq[r].pc = "write"
  /\ LET u == addReq[r].user
         a == addReq[r]
     IN IF carts[u].id # a.cartId
        THEN /\ addReq' = [addReq EXCEPT ![r] = AddDone(500, "unhandled")]
             /\ UNCHANGED carts
        ELSE /\ carts' = [carts EXCEPT ![u].items =
                  IF a.existing # 0
                  THEN [@ EXCEPT ![a.existing].qty = a.existingQty + a.qty]
                  ELSE Append(@, [productId |-> a.productId, qty |-> a.qty])]
             /\ addReq' = [addReq EXCEPT ![r] = AddDone(200, "ok")]
  /\ UNCHANGED <<snap, getReq, today, product, nextCartId, orders, events, coReq, cfReq>>

\* ------------------------------------------------------------- POST /checkout
\* Mutant of CheckoutRead: the empty-cart check is missing.
CheckoutReadNoEmptyCheck(r) ==
  /\ MayArriveCheckout(r)
  /\ \E u \in Customers, pay \in PaymentChoices :
       /\ pay = "CASHLESS" => ExternalEvents < MaxEvents
       /\ LET items == Snapshot(carts[u])
              bad == FirstInvalid(items)
          IN coReq' = [coReq EXCEPT ![r] =
               IF bad # 0
               THEN CheckoutDone(u, NoCreated, "none", 409, InvalidBody(items[bad]))
               ELSE [@ EXCEPT !.pc = "count", !.user = u, !.pay = pay,
                       !.cartId = carts[u].id, !.items = items, !.subtotal = Subtotal(items),
                       !.total = Subtotal(items) - 0 + 0]]
  /\ UNCHANGED <<snap, getReq, today, product, carts, nextCartId, orders, events, addReq, cfReq>>

\* cart.findUnique with items and products, the empty-cart check, the
\* validation loop and the pricing.
CheckoutRead(r) ==
  /\ MayArriveCheckout(r)
  /\ \E u \in Customers, pay \in PaymentChoices :
       /\ pay = "CASHLESS" => ExternalEvents < MaxEvents
       /\ LET items == Snapshot(carts[u])
              bad == FirstInvalid(items)
          IN coReq' = [coReq EXCEPT ![r] =
               IF carts[u].id = 0 \/ Len(items) = 0
               THEN CheckoutDone(u, NoCreated, "none", 409, "Keranjang kosong.")
               ELSE IF bad # 0
               THEN CheckoutDone(u, NoCreated, "none", 409, InvalidBody(items[bad]))
               ELSE [@ EXCEPT !.pc = "count", !.user = u, !.pay = pay,
                       !.cartId = carts[u].id, !.items = items, !.subtotal = Subtotal(items),
                       !.total = Subtotal(items) - 0 + 0]]
  /\ UNCHANGED <<snap, getReq, today, product, carts, nextCartId, orders, events, addReq, cfReq>>

\* getTodayQueueNumber, run on the global client: it counts committed orders.
CheckoutCount(r) ==
  /\ coReq[r].pc = "count"
  /\ coReq' = [coReq EXCEPT ![r].pc = "create",
                 ![r].queueNumber = getTodayQueueNumber]
  /\ UNCHANGED <<snap, getReq, today, product, carts, nextCartId, orders, events, addReq, cfReq>>

\* Mutant of NewOrder: the lines take the catalog's price of the moment of
\* the insert.
NewOrderLivePrice(r) ==
  LET c == coReq[r] IN
  [id |-> NewOrderId(r),
   code |-> makeOrderCode(c.queueNumber),
   queueNumber |-> c.queueNumber,
   status |-> "AWAITING_PAYMENT",
   subtotal |-> c.subtotal, discount |-> 0, tax |-> 0, total |-> c.total,
   customerId |-> c.user,
   createdAt |-> today, closedAt |-> NoTime,
   items |-> [i \in 1..Len(c.items) |->
                [productId |-> c.items[i].productId,
                 qty |-> c.items[i].qty,
                 price |-> product[c.items[i].productId].price,
                 total |-> product[c.items[i].productId].price * c.items[i].qty]]]

\* The Order row and OrderItem rows tx.order.create inserts.
NewOrder(r) ==
  LET c == coReq[r] IN
  [id |-> NewOrderId(r),
   code |-> makeOrderCode(c.queueNumber),
   queueNumber |-> c.queueNumber,
   status |-> "AWAITING_PAYMENT",
   subtotal |-> c.subtotal, discount |-> 0, tax |-> 0, total |-> c.total,
   customerId |-> c.user,
   createdAt |-> today, closedAt |-> NoTime,
   items |-> [i \in 1..Len(c.items) |->
                [productId |-> c.items[i].productId,
                 qty |-> c.items[i].qty,
                 price |-> c.items[i].price,
                 total |-> c.items[i].price * c.items[i].qty]]]

\* Order.code is unique: a committed order holds the code.
CodeTaken(code) == \E i \in 1..Len(orders) : orders[i].code = code

\* Another open transaction has inserted the code: the insert waits for it.
CodePending(r, code) ==
  \E r2 \in CheckoutIds \ {r} :
     /\ coReq[r2].txOrder # <<>>
     /\ coReq[r2].txOrder[1].code = code

\* Mutant of CheckoutCreate: the insert runs outside the transaction and is
\* committed at once.
CheckoutCreateNoTx(r) ==
  /\ coReq[r].pc = "create"
  /\ LET o == NewOrder(r) IN
     /\ ~CodePending(r, o.code)
     /\ IF CodeTaken(o.code)
        THEN /\ coReq' = [coReq EXCEPT ![r] =
                  CheckoutDone(@.user, NoCreated, "P2002", 500,
                               "Terjadi kesalahan pada server.")]
             /\ UNCHANGED orders
        ELSE /\ coReq' = [coReq EXCEPT ![r].pc = "delete", ![r].txOrder = <<o>>]
             /\ orders' = Append(orders, o)
  /\ UNCHANGED <<snap, getReq, today, product, carts, nextCartId, events, addReq, cfReq>>

\* tx.order.create: staged in the transaction, or a unique violation (P2002),
\* which rolls the transaction back and ends in the handler's catch.
CheckoutCreate(r) ==
  /\ coReq[r].pc = "create"
  /\ LET o == NewOrder(r) IN
     /\ ~CodePending(r, o.code)
     /\ coReq' = [coReq EXCEPT ![r] =
          IF CodeTaken(o.code)
          THEN CheckoutDone(@.user, NoCreated, "P2002", 500, "Terjadi kesalahan pada server.")
          ELSE [@ EXCEPT !.pc = "delete", !.txOrder = <<o>>]]
  /\ UNCHANGED <<snap, getReq, today, product, carts, nextCartId, orders, events, addReq, cfReq>>

\* Mutant of CheckoutDeleteCart: the commit also takes the ordered
\* quantities off the stock.
CheckoutDeleteCartReserve(r) ==
  /\ coReq[r].pc = "delete"
  /\ LET c == coReq[r]
         o == c.txOrder[1]
     IN IF carts[c.user].id = 0
        THEN /\ coReq' = [coReq EXCEPT ![r] =
                  CheckoutDone(c.user, NoCreated, "P2025", 500, "Terjadi kesalahan pada server.")]
             /\ UNCHANGED <<carts, orders, product>>
        ELSE /\ orders' = Append(orders, o)
             /\ carts' = [carts EXCEPT ![c.user] = NoCart]
             /\ product' = [p \in Products |->
                  [product[p] EXCEPT !.stock =
                     @ - SumSeq([i \in 1..Len(o.items) |->
                                   IF o.items[i].productId = p THEN o.items[i].qty ELSE 0])]]
             /\ \E serverKey \in BOOLEAN :
                  coReq' = [coReq EXCEPT ![r] =
                    LET created == [id |-> o.id, code |-> o.code, total |-> o.total]
                    IN IF c.pay = "CASH"
                       THEN CheckoutDone(c.user, created, "none", 200, "CASH")
                       ELSE IF ~serverKey
                       THEN CheckoutDone(c.user, created, "none", 500,
                                         "MIDTRANS_SERVER_KEY tidak dikonfigurasi.")
                       ELSE [IdleCheckout EXCEPT !.pc = "pay", !.user = c.user, !.pay = c.pay,
                                             !.created = created]]
  /\ UNCHANGED <<snap, getReq, today, nextCartId, events, addReq, cfReq>>

\* tx.cart.delete by customerId and the commit, or record-not-found (P2025)
\* and the rollback; then the CASH answer or the server-key check.
CheckoutDeleteCart(r) ==
  /\ coReq[r].pc = "delete"
  /\ LET c == coReq[r]
         o == c.txOrder[1]
     IN IF carts[c.user].id = 0
        THEN /\ coReq' = [coReq EXCEPT ![r] =
                  CheckoutDone(c.user, NoCreated, "P2025", 500, "Terjadi kesalahan pada server.")]
             /\ UNCHANGED <<carts, orders>>
        ELSE /\ orders' = Append(orders, o)
             /\ carts' = [carts EXCEPT ![c.user] = NoCart]
             /\ \E serverKey \in BOOLEAN :
                  coReq' = [coReq EXCEPT ![r] =
                    LET created == [id |-> o.id, code |-> o.code, total |-> o.total]
                    IN IF c.pay = "CASH"
                       THEN CheckoutDone(c.user, created, "none", 200, "CASH")
                       ELSE IF ~serverKey
                       THEN CheckoutDone(c.user, created, "none", 500,
                                         "MIDTRANS_SERVER_KEY tidak dikonfigurasi.")
                       ELSE [IdleCheckout EXCEPT !.pc = "pay", !.user = c.user, !.pay = c.pay,
                                             !.created = created]]
  /\ UNCHANGED <<snap, getReq, today, product, nextCartId, events, addReq, cfReq>>

\* Mutant of midtransOrderId: the whole order id is appended.
midtransOrderIdWholeId(created) == created.code \o <<"-">> \o created.id

\* `${created.code}-${created.id.slice(0, 8)}`
midtransOrderId(created) == created.code \o <<"-">> \o SubSeq(created.id, 1, 8)

\* The parameters of the token request.
snapParams(created) ==
  [order_id |-> midtransOrderId(created), gross_amount |-> created.total,
   custom_field1 |-> created.id, custom_field2 |-> created.code]

\* Mutant of CheckoutPay: a failed token request takes the order back out
\* of the store.
CheckoutPayRollback(r) ==
  /\ coReq[r].pc = "pay"
  /\ \E tokenOk \in BOOLEAN :
       /\ coReq' = [coReq EXCEPT ![r] =
            IF tokenOk
            THEN CheckoutDone(@.user, @.created, "none", 200, "CASHLESS")
            ELSE CheckoutDone(@.user, @.created, "gateway", 500,
                              "Terjadi kesalahan pada server.")]
       /\ orders' = IF tokenOk THEN orders
                    ELSE SelectSeq(orders, LAMBDA o : o.id # coReq[r].created.id)
  /\ snap' = snap \cup {snapParams(coReq[r].created)}
  /\ UNCHANGED <<getReq, today, product, carts, nextCartId, events, addReq, cfReq>>

\* snap.createTransactionToken: a token, or an error caught by the handler.
CheckoutPay(r) ==
  /\ coReq[r].pc = "pay"
  /\ snap' = snap \cup {snapParams(coReq[r].created)}
  /\ \E tokenOk \in BOOLEAN :
       coReq' = [coReq EXCEPT ![r] =
         IF tokenOk
         THEN CheckoutDone(@.user, @.created, "none", 200, "CASHLESS")
         ELSE CheckoutDone(@.user, @.created, "gateway", 500, "Terjadi kesalahan pada server.")]
  /\ UNCHANGED <<getReq, today, product, carts, nextCartId, orders, events, addReq, cfReq>>

\* ------------------------------------------------------------- POST /orders/[code]
\* A code no order has.
UnknownCode == <<"ORD", 0, 0, 0, 0>>

\* The codes a confirmation request may carry.
RequestCodes == {orders[i].code : i \in 1..Len(orders)} \cup {UnknownCode}

\* Mutant of FindOrder: a code that matches nothing falls back to the first order.
FindOrderOrFirst(code) ==
  LET hit == {i \in 1..Len(orders) : orders[i].code = code}
  IN IF hit = {} THEN (IF orders = <<>> THEN 0 ELSE 1) ELSE CHOOSE i \in hit : TRUE

\* order.findUnique({code}): the index of the order, 0 if there is none.
FindOrder(code) ==
  LET hit == {i \in 1..Len(orders) : orders[i].code = code}
  IN IF hit = {} THEN 0 ELSE CHOOSE i \in hit : TRUE

\* Mutant of AlreadyPaid: the early return is missing.
AlreadyPaidNever(o) == FALSE

\* if (order.status === "PAID")
AlreadyPaid(o) == o.status = "PAID"

\* order.findUnique with its items, the not-found and the already-paid answers.
ConfirmRead(r) ==
  /\ MayArriveConfirm(r)
  /\ \E code \in RequestCodes :
       LET k == FindOrder(code) IN
       cfReq' = [cfReq EXCEPT ![r] =
         IF k = 0
         THEN ConfirmDone(code, "none", 404, "Not found")
         ELSE IF AlreadyPaid(orders[k])
         THEN ConfirmDone(code, "none", 200, "already")
         ELSE [@ EXCEPT !.pc = "tx", !.code = code, !.orderId = orders[k].id,
                 !.items = orders[k].items, !.i = 1]]
  /\ UNCHANGED <<snap, getReq, today, product, carts, nextCartId, orders, events, addReq, coReq>>

\* Mutant of RowFree: the update does not wait for the row (a read of the
\* stock followed by a write of the difference).
RowFreeAlways(r, p) == TRUE

\* No other open transaction has updated the product row (its row lock).
RowFree(r, p) == \A r2 \in ConfirmIds \ {r} : p \notin cfReq[r2].locked

\* data: { stock: { decrement: qty } }
Decrement(stock, lineQty) == stock - lineQty

\* Mutant of ConfirmDecrement: the update runs outside the transaction and
\* is committed at once.
ConfirmDecrementNoTx(r) ==
  /\ cfReq[r].pc = "tx"
  /\ cfReq[r].i <= Len(cfReq[r].items)
  /\ LET it == cfReq[r].items[cfReq[r].i] IN
     /\ product' = [product EXCEPT ![it.productId].stock = @ - it.qty]
     /\ cfReq' = [cfReq EXCEPT ![r].i = @ + 1]
  /\ UNCHANGED <<snap, getReq, today, carts, nextCartId, orders, events, addReq, coReq>>

\* Mutant of ConfirmDecrement: the update applies only while the stock
\* covers the line's quantity.
ConfirmDecrementChecked(r) ==
  /\ cfReq[r].pc = "tx"
  /\ cfReq[r].i <= Len(cfReq[r].items)
  /\ LET f == cfReq[r]
         it == f.items[f.i]
         p == it.productId
         cur == IF p \in f.locked THEN f.txStock[p] ELSE product[p].stock
     IN /\ RowFree(r, p)
        /\ cur >= it.qty
        /\ cfReq' = [cfReq EXCEPT ![r].i = f.i + 1,
                       ![r].locked = f.locked \cup {p},
                       ![r].txStock[p] = Decrement(cur, it.qty)]
  /\ UNCHANGED <<snap, getReq, today, product, carts, nextCartId, orders, events, addReq, coReq>>

\* tx.product.update of the next order line: staged in the transaction, on
\* the row's latest value, once the row is free.
ConfirmDecrement(r) ==
  /\ cfReq[r].pc = "tx"
  /\ cfReq[r].i <= Len(cfReq[r].items)
  /\ LET f == cfReq[r]
         it == f.items[f.i]
         p == it.productId
         cur == IF p \in f.locked THEN f.txStock[p] ELSE product[p].stock
     IN /\ RowFree(r, p)
        /\ cfReq' = [cfReq EXCEPT ![r].i = f.i + 1,
                       ![r].locked = f.locked \cup {p},
                       ![r].txStock[p] = Decrement(cur, it.qty)]
  /\ UNCHANGED <<snap, getReq, today, product, carts, nextCartId, orders, events, addReq, coReq>>

\* Mutant of ConfirmCommit: the update also rewrites the order's lines and
\* totals with the catalog's current prices.
ConfirmCommitReprice(r) ==
  /\ cfReq[r].pc = "tx"
  /\ cfReq[r].i > Len(cfReq[r].items)
  /\ LET f == cfReq[r]
         reprice(o) ==
           LET lines == [i \in 1..Len(o.items) |->
                           [o.items[i] EXCEPT
                              !.price = product[o.items[i].productId].price,
                              !.total = product[o.items[i].productId].price
                                          * o.items[i].qty]]
           IN [o EXCEPT !.items = lines, !.subtotal = Subtotal(lines),
                        !.total = Subtotal(lines),
                        !.status = "PAID", !.closedAt = today]
     IN
     /\ product' = [p \in Products |->
                      IF p \in f.locked
                      THEN [product[p] EXCEPT !.stock = f.txStock[p]]
                      ELSE product[p]]
     /\ orders' = [k \in 1..Len(orders) |->
                     IF orders[k].id = f.orderId THEN reprice(orders[k])
                     ELSE orders[k]]
     /\ cfReq' = [cfReq EXCEPT ![r] = ConfirmDone(f.code, "none", 200, "ok")]
  /\ UNCHANGED <<snap, getReq, today, carts, nextCartId, events, addReq, coReq>>

\* Mutant of ConfirmCommit: the update flips the status it finds, so a
\* second commit on a PAID order takes it back to AWAITING_PAYMENT.
ConfirmCommitToggle(r) ==
  /\ cfReq[r].pc = "tx"
  /\ cfReq[r].i > Len(cfReq[r].items)
  /\ LET f == cfReq[r] IN
     /\ product' = [p \in Products |->
                      IF p \in f.locked
                      THEN [product[p] EXCEPT !.stock = f.txStock[p]]
                      ELSE product[p]]
     /\ orders' = [k \in 1..Len(orders) |->
                     IF orders[k].id = f.orderId
                     THEN [orders[k] EXCEPT
                             !.status = IF @ = "PAID" THEN "AWAITING_PAYMENT" ELSE "PAID",
                             !.closedAt = today]
                     ELSE orders[k]]
     /\ cfReq' = [cfReq EXCEPT ![r] = ConfirmDone(f.code, "none", 200, "ok")]
  /\ UNCHANGED <<snap, getReq, today, carts, nextCartId, events, addReq, coReq>>

\* Mutant of ConfirmCommit: the commit writes the transaction's stock for
\* every product, also for those the order does not reference.
ConfirmCommitAllRows(r) ==
  /\ cfReq[r].pc = "tx"
  /\ cfReq[r].i > Len(cfReq[r].items)
  /\ LET f == cfReq[r] IN
     /\ product' = [p \in Products |-> [product[p] EXCEPT !.stock = f.txStock[p]]]
     /\ orders' = [k \in 1..Len(orders) |->
                     IF orders[k].id = f.orderId
                     THEN [orders[k] EXCEPT !.status = "PAID", !.closedAt = today]
                     ELSE orders[k]]
     /\ cfReq' = [cfReq EXCEPT ![r] = ConfirmDone(f.code, "none", 200, "ok")]
  /\ UNCHANGED <<snap, getReq, today, carts, nextCartId, events, addReq, coReq>>

\* tx.order.update({status: "PAID", closedAt: new Date()}) and the commit.
ConfirmCommit(r) ==
  /\ cfReq[r].pc = "tx"
  /\ cfReq[r].i > Len(cfReq[r].items)
  /\ LET f == cfReq[r] IN
     /\ product' = [p \in Products |->
                      IF p \in f.locked
                      THEN [product[p] EXCEPT !.stock = f.txStock[p]]
                      ELSE product[p]]
     /\ orders' = [k \in 1..Len(orders) |->
                     IF orders[k].id = f.orderId
                     THEN [orders[k] EXCEPT !.status = "PAID", !.closedAt = today]
                     ELSE orders[k]]
     /\ cfReq' = [cfReq EXCEPT ![r] = ConfirmDone(f.code, "none", 200, "ok")]
  /\ UNCHANGED <<snap, getReq, today, carts, nextCartId, events, addReq, coReq>>

\* The transaction fails (deadlock victim, timeout, connection error): its
\* staged writes are rolled back and the handler's catch answers 500.
ConfirmAbort(r) ==
  /\ cfReq[r].pc = "tx"
  /\ cfReq' = [cfReq EXCEPT ![r] =
                 ConfirmDone(cfReq[r].code, "tx", 500, "Server error")]
  /\ UNCHANGED <<snap, getReq, today, product, carts, nextCartId, orders, events, addReq, coReq>>

\* ------------------------------------------------------------- GET /orders/[code]
\* Mutant of FindOwned: the lookup is by code alone.
FindOwnedAnyCustomer(code, caller) ==
  {k \in 1..Len(orders) : orders[k].code = code}

\* order.findFirst({code, customerId}): the indexes of the matching orders.
FindOwned(code, caller) ==
  {k \in 1..Len(orders) : orders[k].code = code /\ orders[k].customerId = caller}

\* The JSON of the order: code, status, total and the mapped items.
OrderJson(o) ==
  [code |-> o.code, status |-> o.status, total |-> o.total,
   items |-> [i \in 1..Len(o.items) |->
                [productName |-> o.items[i].productId, qty |-> o.items[i].qty,
                 price |-> o.items[i].price, total |-> o.items[i].total]]]

\* The handler's answer: 401 without a user, 404 without a matching order of
\* the caller, else the order.
OrderDetail(caller, code) ==
  IF caller = Anonymous
  THEN [status |-> 401, body |-> [error |-> "Unauthorized"]]
  ELSE LET hit == FindOwned(code, caller) IN
       IF hit = {}
       THEN [status |-> 404, body |-> [error |-> "Not found"]]
       ELSE [status |-> 200,
             body |-> OrderJson(orders[CHOOSE k \in hit : \A j \in hit : k <= j])]

GetOrder(g) ==
  /\ getReq[g].pc = "idle"
  /\ g > 1 => getReq[g - 1].pc # "idle"
  /\ \E caller \in Callers, code \in RequestCodes :
       getReq' = [getReq EXCEPT ![g] =
         [pc |-> "done", caller |-> caller, code |-> code,
          resp |-> OrderDetail(caller, code)]]
  /\ UNCHANGED <<snap, today, product, carts, nextCartId, orders, events, addReq, coReq, cfReq>>

\* ------------------------------------------------------------- environment
\* The server's clock passes midnight.
NextDay ==
  /\ today < MaxDay
  /\ ExternalEvents < MaxEvents
  /\ today' = today + 1
  /\ events' = events + 1
  /\ UNCHANGED <<snap, getReq, product, carts, nextCartId, orders, addReq, coReq, cfReq>>

\* Catalog management events a product's price or active flag
\* (productUpdateSchema); the row must not be locked by an open transaction.
CatalogUpdate ==
  /\ ExternalEvents < MaxEvents
  /\ events' = events + 1
  /\ \E p \in Products :
       /\ \A r \in ConfirmIds : p \notin cfReq[r].locked
       /\ \/ product' = [product EXCEPT ![p].price = EditPrice[p]]
          \/ product' = [product EXCEPT ![p].isActive = FALSE]
  /\ UNCHANGED <<snap, getReq, today, carts, nextCartId, orders, addReq, coReq, cfReq>>

\* ------------------------------------------------------------- specification
Next ==
  \/ \E r \in AddIds : AddStart(r)
  \/ \E r \in AddIds : AddEnsureCart(r)
  \/ \E r \in AddIds : AddFind(r)
  \/ \E r \in AddIds : AddWrite(r)
  \/ \E r \in CheckoutIds : CheckoutRead(r)
  \/ \E r \in CheckoutIds : CheckoutCount(r)
  \/ \E r \in CheckoutIds : CheckoutCreate(r)
  \/ \E r \in CheckoutIds : CheckoutDeleteCart(r)
  \/ \E r \in CheckoutIds : CheckoutPay(r)
  \/ \E r \in ConfirmIds : ConfirmRead(r)
  \/ \E r \in ConfirmIds : ConfirmDecrement(r)
  \/ \E r \in ConfirmIds : ConfirmCommit(r)
  \/ \E r \in ConfirmIds : ConfirmAbort(r)
  \/ NextDay
  \/ CatalogUpdate

Spec == Init /\ [][Next]_vars

\* ------------------------------------------------------------- checkout desk
\* The checkout and the order detail on their own, started from the carts,
\* stocks and orders the other handlers leave behind: carts of up to two
\* lines of distinct products with quantities up to MaxCartQty, stocks up to
\* MaxCartQty, and possibly one order committed earlier today.
CartLines == [productId : Products, qty : 1..MaxCartQty]
LineSeqs ==
  {<<>>} \cup {<<l>> : l \in CartLines}
         \cup {s \in {<<l1, l2>> : l1 \in CartLines, l2 \in CartLines} :
                 s[1].productId # s[2].productId}
CartChoices(id) == {NoCart} \cup {[id |-> id, items |-> s] : s \in LineSeqs}

\* The cart of one line a single add-to-cart leaves.
OneLineCart(id) == [id |-> id, items |-> <<[productId |-> "A", qty |-> 1]>>]

\* An order of customer u2 committed by an earlier checkout of day 0.
PriorOrder ==
  [id |-> NewOrderId(0),
   code |-> <<"ORD", 0>> \o PadStart(Digits(1), 3),
   queueNumber |-> PadStart(Digits(1), 3),
   status |-> "AWAITING_PAYMENT",
   subtotal |-> InitPrice["A"], discount |-> 0, tax |-> 0, total |-> InitPrice["A"],
   customerId |-> "u2",
   createdAt |-> 0, closedAt |-> NoTime,
   items |-> <<[productId |-> "A", qty |-> 1, price |-> InitPrice["A"],
                total |-> InitPrice["A"]]>>]

InitCheckout ==
  /\ today = 0
  /\ product \in [Products -> [price : {InitPrice[p] : p \in Products},
                               stock : 1..MaxCartQty, isActive : {TRUE}]]
  /\ \A p \in Products : product[p].price = InitPrice[p]
  /\ \E c1 \in CartChoices(1), c2 \in {NoCart, OneLineCart(2)} :
       carts = [u \in Customers |-> IF u = "u1" THEN c1 ELSE c2]
  /\ nextCartId = 3
  /\ orders \in {<<>>, <<PriorOrder>>}
  /\ events = 0
  /\ addReq = [r \in AddIds |-> IdleAdd]
  /\ coReq = [r \in CheckoutIds |-> IdleCheckout]
  /\ cfReq = [r \in ConfirmIds |-> IdleConfirm]
  /\ getReq = [g \in GetIds |-> IdleGet]
  /\ snap = {}

NextCheckout ==
  \/ \E r \in CheckoutIds : CheckoutRead(r)
  \/ \E r \in CheckoutIds : CheckoutCount(r)
  \/ \E r \in CheckoutIds : CheckoutCreate(r)
  \/ \E r \in CheckoutIds : CheckoutDeleteCart(r)
  \/ \E r \in CheckoutIds : CheckoutPay(r)
  \/ \E g \in GetIds : GetOrder(g)
  \/ NextDay
  \/ CatalogUpdate

SpecCheckout == InitCheckout /\ [][NextCheckout]_vars

\* ------------------------------------------------------------- cart desk
\* The add-to-cart on its own, started from the carts earlier requests
\* leave behind.
NextCart ==
  \/ \E r \in AddIds : AddStart(r)
  \/ \E r \in AddIds : AddEnsureCart(r)
  \/ \E r \in AddIds : AddFind(r)
  \/ \E r \in AddIds : AddWrite(r)

SpecCart == InitCheckout /\ [][NextCart]_vars

\* ------------------------------------------------------------- claims: helpers
\* The quantity of product p an order's lines hold.
OrderQty(o, p) ==
  SumSeq([i \in 1..Len(o.items) |->
            IF o.items[i].productId = p THEN o.items[i].qty ELSE 0])

\* The quantity of product p in the orders that are PAID.
PaidQty(p) ==
  SumSeq([k \in 1..Len(orders) |->
            IF orders[k].status = "PAID" THEN OrderQty(orders[k], p) ELSE 0])

\* Confirmation requests that are in, or have committed, their transaction.
Confirming == {r \in ConfirmIds : cfReq[r].pc = "tx" \/ cfReq[r].resp.body = "ok"}

\* The committed order with this code.
OrderOfCode(code) == orders[FindOrder(code)]

\* ------------------------------------------------------------- C1
\* C1: confirmations of one order code, however they interleave, decrement
\* each product of the order by the line's quantity once in total: a
\* product's stock is its initial stock less the quantities of the PAID orders.
C1_DecrementedOncePerOrder ==
  \A p \in Products : product[p].stock = InitStock - PaidQty(p)

\* ------------------------------------------------------------- C2
\* C2: a confirmation that arrives when the order is already PAID (the first
\* call has returned) answers { ok: true, already: true } and changes no
\* stock, no order status and no closure timestamp; the call that answers
\* { ok: true } moves the order to PAID and takes each line's quantity off
\* the stock once.
C2_SequentialIdempotent ==
  [][\A r \in ConfirmIds :
       /\ ( /\ cfReq[r].pc = "idle"
            /\ cfReq'[r].pc # "idle"
            /\ FindOrder(cfReq'[r].code) # 0
            /\ OrderOfCode(cfReq'[r].code).status = "PAID" )
          => /\ cfReq'[r].pc = "done"
             /\ cfReq'[r].resp = [status |-> 200, body |-> "already"]
             /\ product' = product
             /\ orders' = orders
       /\ ( /\ cfReq[r].pc = "tx"
            /\ cfReq'[r].resp.body = "ok" )
          => LET k == FindOrder(cfReq[r].code) IN
             /\ orders'[k].status = "PAID"
             /\ orders'[k].closedAt # NoTime
             /\ \A p \in Products :
                  product'[p].stock = product[p].stock - OrderQty(orders[k], p)
    ]_vars

\* An order confirmed twice in sequence: one call answered ok, a later one already.
C2_Witness ==
  \E r1, r2 \in ConfirmIds :
     /\ cfReq[r1].resp.body = "ok"
     /\ cfReq[r2].resp.body = "already"
     /\ cfReq[r1].code = cfReq[r2].code
     /\ \A p \in Products : product[p].stock = InitStock - PaidQty(p)

\* ------------------------------------------------------------- C3
\* C3: the committed orders have pairwise distinct codes, those of one day
\* pairwise distinct queue numbers, and every one of the concurrent checkouts
\* commits: none ends because its code collided with the code of another
\* customer's checkout.
C3_AllCommittedDistinct ==
  /\ \A i, j \in 1..Len(orders) :
       i # j => /\ orders[i].code # orders[j].code
                /\ orders[i].createdAt = orders[j].createdAt
                     => orders[i].queueNumber # orders[j].queueNumber
  /\ \A r \in CheckoutIds :
       coReq[r].logged = "P2002"
         => \E r2 \in CheckoutIds \ {r} :
              /\ coReq[r2].user = coReq[r].user
              /\ coReq[r2].created # NoCreated

\* ------------------------------------------------------------- C4
\* C4: a checkout whose order insert collides with a committed code does not
\* end there: it goes back to allocate a fresh queue number and code.
C4_ConflictRetried ==
  [][\A r \in CheckoutIds :
       ( /\ coReq[r].pc = "create"
         /\ CodeTaken(makeOrderCode(coReq[r].queueNumber))
         /\ coReq'[r] # coReq[r] )
       => coReq'[r].pc = "count"
    ]_vars

\* ------------------------------------------------------------- C5
\* C5: no product's stock is ever negative, also when several orders for
\* one product were checked out before any of them was confirmed.  Stated
\* for the runs in which no two confirmations carry one code and no order
\* holds two lines of one product, so that what refutes it is the sale of
\* separate orders beyond the stock, not the double confirmation of C1.
C5_StockNonNegative ==
  ( /\ \A r1, r2 \in Confirming : r1 # r2 => cfReq[r1].code # cfReq[r2].code
    /\ \A k \in 1..Len(orders) : \A i, j \in 1..Len(orders[k].items) :
         i # j => orders[k].items[i].productId # orders[k].items[j].productId )
    => \A p \in Products : product[p].stock >= 0

\* ------------------------------------------------------------- C6
\* The cart line is available: its product is active and has the stock.
LineAvailable(line) ==
  /\ product[line.productId].isActive
  /\ line.qty <= product[line.productId].stock

\* C6: a checkout whose cart has a line that is not available (inactive
\* product, or quantity above the stock) answers 409 at once and leaves
\* orders, carts and stock as they were; only a cart whose every line is
\* available goes on to the commit.
C6_FailedValidationNoEffect ==
  [][\A r \in CheckoutIds :
       ( /\ coReq[r].pc = "idle"
         /\ coReq'[r].pc # "idle" )
       => LET cart == carts[coReq'[r].user] IN
          /\ db' = db
          /\ (\E i \in 1..Len(cart.items) : ~LineAvailable(cart.items[i]))
               => /\ coReq'[r].pc = "done"
                  /\ coReq'[r].resp.status = 409
                  /\ coReq'[r].created = NoCreated
          /\ coReq'[r].pc = "count"
               => \A i \in 1..Len(cart.items) : LineAvailable(cart.items[i])
    ]_vars

\* A checkout was refused for stock while the cart, with more of a product
\* than its stock, is still there and no order exists.
C6_Witness ==
  \E r \in CheckoutIds :
     /\ coReq[r].resp = [status |-> 409, body |-> "tidak mencukupi"]
     /\ \E i \in 1..Len(carts[coReq[r].user].items) :
          carts[coReq[r].user].items[i].qty
            > product[carts[coReq[r].user].items[i].productId].stock
     /\ orders = <<>>

\* ------------------------------------------------------------- C7
\* The order a step appends, when it appends one.
Appended == orders'[Len(orders')]

\* C7: the order with its lines and the deletion of the customer's cart
\* become visible in one step or not at all: a step that adds an order adds
\* one order in AWAITING_PAYMENT with its lines and deletes that customer's
\* cart; a checkout deletes a cart only in such a step; a checkout whose
\* insert or cart deletion fails leaves orders and carts as they were; and a
\* checkout has a created order exactly when that one order is committed.
C7_CommitAllOrNothing ==
  [][/\ Len(orders') # Len(orders)
          => /\ orders' = Append(orders, Appended)
             /\ Appended.status = "AWAITING_PAYMENT"
             /\ Len(Appended.items) >= 1
             /\ carts[Appended.customerId].id # 0
             /\ carts'[Appended.customerId] = NoCart
             /\ \A u \in Customers \ {Appended.customerId} : carts'[u] = carts[u]
     /\ \A r \in CheckoutIds :
          /\ ( /\ coReq'[r] # coReq[r]
               /\ carts' # carts )
             => Len(orders') = Len(orders) + 1
          /\ ( /\ coReq'[r] # coReq[r]
               /\ coReq'[r].logged \in {"P2002", "P2025"} )
             => /\ orders' = orders
                /\ carts' = carts
                /\ coReq'[r].created = NoCreated
          /\ coReq'[r].created # NoCreated
             => Cardinality({k \in 1..Len(orders') :
                               orders'[k].id = coReq'[r].created.id}) = 1
          /\ coReq'[r].resp.status = 200 => coReq'[r].created # NoCreated
     /\ Len(orders') = Cardinality({r \in CheckoutIds :
                                      coReq'[r].created # NoCreated})
    ]_vars

\* A checkout's cart deletion failed after its order was staged: nothing of
\* it is committed, while the other checkout of the cart committed one order.
C7_Witness ==
  \E r1, r2 \in CheckoutIds :
     /\ coReq[r1].logged = "P2025"
     /\ coReq[r2].resp.status = 200
     /\ Len(orders) = 1
     /\ orders[1].id = coReq[r2].created.id

\* ------------------------------------------------------------- C8
\* The stock of every product, and the status of every order.
Stocks == [p \in Products |-> product[p].stock]
Statuses == [k \in 1..Len(orders) |-> orders[k].status]

\* C8: committed stock and order status change together or not at all: a
\* step that changes any stock, or that moves an order out of
\* AWAITING_PAYMENT, is the commit of one confirmation, which takes the
\* quantity of every line of its order off the stock and leaves the order
\* PAID with a closure timestamp; a confirmation that fails changes neither.
C8_ConfirmationAtomic ==
  [][/\ ( \/ Stocks' # Stocks
          \/ \E k \in 1..Len(orders) : orders'[k].status # orders[k].status )
        => \E r \in ConfirmIds :
             LET k == FindOrder(cfReq[r].code) IN
             /\ cfReq[r].pc = "tx"
             /\ cfReq'[r].resp = [status |-> 200, body |-> "ok"]
             /\ orders'[k].status = "PAID"
             /\ orders'[k].closedAt # NoTime
             /\ \A p \in Products :
                  product'[p].stock = product[p].stock - OrderQty(orders[k], p)
             /\ \A j \in 1..Len(orders) \ {k} : orders'[j] = orders[j]
     /\ \A r \in ConfirmIds :
          ( /\ cfReq[r].pc = "tx"
            /\ cfReq'[r].resp.status = 500 )
          => /\ product' = product
             /\ orders' = orders
    ]_vars

\* A confirmation of a two-line order failed after staging a decrement: the
\* order is still AWAITING_PAYMENT with no closure timestamp and no stock
\* has moved.
C8_Witness ==
  \E r \in ConfirmIds :
     /\ cfReq[r].resp.status = 500
     /\ FindOrder(cfReq[r].code) # 0
     /\ Len(OrderOfCode(cfReq[r].code).items) >= 2
     /\ OrderOfCode(cfReq[r].code).status = "AWAITING_PAYMENT"
     /\ OrderOfCode(cfReq[r].code).closedAt = NoTime
     /\ \A p \in Products : product[p].stock = InitStock

\* ------------------------------------------------------------- C9
\* C9: when the confirmations are of different orders (no two of them carry
\* one code), no decrement is lost however they interleave: each product's
\* stock is its initial stock less the quantities of the confirmed orders.
C9_NoLostDecrement ==
  (\A r1, r2 \in Confirming : r1 # r2 => cfReq[r1].code # cfReq[r2].code)
    => \A p \in Products : product[p].stock = InitStock - PaidQty(p)

\* Two confirmations of different orders with a common product have both
\* committed.
C9_Witness ==
  \E r1, r2 \in ConfirmIds :
     /\ cfReq[r1].resp.body = "ok"
     /\ cfReq[r2].resp.body = "ok"
     /\ cfReq[r1].code # cfReq[r2].code
     /\ \E p \in Products :
          /\ OrderQty(OrderOfCode(cfReq[r1].code), p) > 0
          /\ OrderQty(OrderOfCode(cfReq[r2].code), p) > 0
          /\ product[p].stock = InitStock - OrderQty(OrderOfCode(cfReq[r1].code), p)
                                          - OrderQty(OrderOfCode(cfReq[r2].code), p)

\* ------------------------------------------------------------- C10
\* C10: an order, once created, keeps its id, code, queue number, customer,
\* subtotal, discount, tax, total and lines (product, quantity, unit price,
\* line total) in every later step, whatever the catalog does; only its
\* status and closure timestamp ever change, and no order disappears.
C10_PriceLocked ==
  [][/\ Len(orders') >= Len(orders)
     /\ \A k \in 1..Len(orders) :
          orders'[k] = [orders[k] EXCEPT !.status = orders'[k].status,
                                         !.closedAt = orders'[k].closedAt]
    ]_vars

\* A PAID order's line holds the price of the checkout although the
\* catalog's price of the product has changed since.
C10_Witness ==
  \E k \in 1..Len(orders) :
     /\ orders[k].status = "PAID"
     /\ \E i \in 1..Len(orders[k].items) :
          /\ orders[k].items[i].price = InitPrice[orders[k].items[i].productId]
          /\ product[orders[k].items[i].productId].price
               # orders[k].items[i].price
     /\ orders[k].total = Subtotal(orders[k].items)

\* ------------------------------------------------------------- C11
\* The sum over the lines of unit price times quantity.
LinesValue(lines) ==
  SumSeq([i \in 1..Len(lines) |-> lines[i].price * lines[i].qty])

\* C11: every committed order has discount 0, tax 0, total = subtotal -
\* discount + tax, subtotal = the sum over its lines of unit price times
\* quantity, and every line total = unit price times quantity, all integers;
\* the unit prices are the prices the checkout read with the cart (the
\* catalog's prices at that read), kept to the commit whatever the catalog
\* does meanwhile, and the quantities are those of the cart lines read.
C11_OrderTotals ==
  [][/\ \A k \in 1..Len(orders') :
          LET o == orders'[k] IN
          /\ o.discount = 0
          /\ o.tax = 0
          /\ o.total = o.subtotal - o.discount + o.tax
          /\ o.subtotal = LinesValue(o.items)
          /\ o.subtotal \in Nat
          /\ o.total \in Nat
          /\ \A i \in 1..Len(o.items) :
               /\ o.items[i].total = o.items[i].price * o.items[i].qty
               /\ o.items[i].price \in Nat
               /\ o.items[i].qty \in Nat
     /\ \A r \in CheckoutIds :
          /\ ( /\ coReq[r].pc = "idle"
               /\ coReq'[r].pc = "count" )
             => LET cart == carts[coReq'[r].user] IN
                /\ Len(coReq'[r].items) = Len(cart.items)
                /\ \A i \in 1..Len(cart.items) :
                     /\ coReq'[r].items[i].productId = cart.items[i].productId
                     /\ coReq'[r].items[i].qty = cart.items[i].qty
                     /\ coReq'[r].items[i].price = product[cart.items[i].productId].price
          /\ ( /\ coReq[r].pc \in {"count", "create"}
               /\ coReq'[r].pc \in {"create", "delete"} )
             => coReq'[r].items = coReq[r].items
          /\ ( /\ coReq[r].pc = "delete"
               /\ coReq'[r].pc # "delete"
               /\ Len(orders') = Len(orders) + 1 )
             => /\ Len(Appended.items) = Len(coReq[r].items)
                /\ \A i \in 1..Len(coReq[r].items) :
                     /\ Appended.items[i].productId = coReq[r].items[i].productId
                     /\ Appended.items[i].qty = coReq[r].items[i].qty
                     /\ Appended.items[i].price = coReq[r].items[i].price
    ]_vars

\* The order of the cart [A at 25000 x 2, B at 15000 x 1]: subtotal and total
\* are 65000.
C11_Witness ==
  \E k \in 1..Len(orders) :
     /\ orders[k].items =
          <<[productId |-> "A", qty |-> 2, price |-> 25000, total |-> 50000],
            [productId |-> "B", qty |-> 1, price |-> 15000, total |-> 15000]>>
     /\ orders[k].subtotal = 65000
     /\ orders[k].total = 65000
     /\ orders[k].discount = 0
     /\ orders[k].tax = 0

\* ------------------------------------------------------------- C12
\* C12: every order is created in AWAITING_PAYMENT; the only change of a
\* status any step makes is AWAITING_PAYMENT to PAID, in the commit of a
\* confirmation of that order; a PAID order is PAID in every later state;
\* and no other step (a midnight, a catalog edit, any other request) moves
\* an order out of AWAITING_PAYMENT.
C12_StatusMachine ==
  [][/\ Len(orders') >= Len(orders)
     /\ \A k \in 1..Len(orders') :
          /\ orders'[k].status \in {"AWAITING_PAYMENT", "PAID"}
          /\ k > Len(orders) => orders'[k].status = "AWAITING_PAYMENT"
     /\ \A k \in 1..Len(orders) :
          /\ orders[k].status = "PAID" => orders'[k].status = "PAID"
          /\ orders'[k].status # orders[k].status
               => /\ orders[k].status = "AWAITING_PAYMENT"
                  /\ orders'[k].status = "PAID"
                  /\ \E r \in ConfirmIds :
                       /\ cfReq[r].pc = "tx"
                       /\ cfReq[r].code = orders[k].code
                       /\ cfReq'[r].resp = [status |-> 200, body |-> "ok"]
    ]_vars

\* After a midnight, one order is PAID and closed and another, never
\* confirmed, is still AWAITING_PAYMENT.
C12_Witness ==
  /\ today = MaxDay
  /\ \E k1, k2 \in 1..Len(orders) :
       /\ orders[k1].status = "PAID"
       /\ orders[k1].closedAt # NoTime
       /\ orders[k2].status = "AWAITING_PAYMENT"
       /\ \A r \in ConfirmIds : cfReq[r].code # orders[k2].code

\* ------------------------------------------------------------- C13
\* The checkout ended in a payment gateway failure: the server key is
\* missing, or the token request threw.
GatewayFailed(c) ==
  /\ c.pc = "done"
  /\ \/ c.resp.body = "MIDTRANS_SERVER_KEY tidak dikonfigurasi."
     \/ c.logged = "gateway"

\* C13: a CASHLESS checkout whose gateway step fails answers 500 and leaves
\* its committed order in place: the step of the failure either is the
\* commit itself (missing server key: the order is appended in
\* AWAITING_PAYMENT with its lines and the cart is deleted) or changes
\* nothing in the store (token error: orders, carts and stock are as
\* before); afterwards the order is there with its lines and total, and it
\* is AWAITING_PAYMENT unless a confirmation has paid it.
C13_GatewayFailureKeepsOrder ==
  [][\A r \in CheckoutIds :
       /\ ( /\ coReq[r].pc = "pay"
            /\ coReq'[r].pc # "pay" )
          => /\ db' = db
             /\ coReq'[r].created = coReq[r].created
             /\ coReq'[r].resp.status \in {200, 500}
       /\ ( /\ coReq'[r] # coReq[r]
            /\ GatewayFailed(coReq'[r]) )
          => /\ coReq'[r].resp.status = 500
             /\ coReq[r].pc = "delete"
                  => /\ orders' = Append(orders, Appended)
                     /\ Appended.id = coReq'[r].created.id
                     /\ Appended.status = "AWAITING_PAYMENT"
                     /\ carts'[coReq'[r].user] = NoCart
       /\ GatewayFailed(coReq'[r])
          => \E k \in 1..Len(orders') :
               /\ orders'[k].id = coReq'[r].created.id
               /\ orders'[k].code = coReq'[r].created.code
               /\ orders'[k].customerId = coReq'[r].user
               /\ Len(orders'[k].items) >= 1
               /\ orders'[k].total = coReq'[r].created.total
               /\ orders'[k].total = SumSeq([i \in 1..Len(orders'[k].items) |->
                                               orders'[k].items[i].total])
               /\ \/ orders'[k].status = "AWAITING_PAYMENT"
                  \/ \E f \in ConfirmIds :
                       /\ cfReq'[f].code = orders'[k].code
                       /\ cfReq'[f].resp.body = "ok"
    ]_vars

\* The token request failed: the checkout answered 500, its order is
\* committed and AWAITING_PAYMENT, and the customer's cart is gone.
C13_Witness ==
  \E r \in CheckoutIds :
     /\ coReq[r].logged = "gateway"
     /\ coReq[r].resp.status = 500
     /\ carts[coReq[r].user] = NoCart
     /\ \E k \in 1..Len(orders) :
          /\ orders[k].id = coReq[r].created.id
          /\ orders[k].status = "AWAITING_PAYMENT"
          /\ Len(orders[k].items) >= 1

\* ------------------------------------------------------------- C14
RECURSIVE QueueValue(_)
\* The number a queue number's digits denote.
QueueValue(q) ==
  IF q = <<>> THEN 0 ELSE 10 * QueueValue(SubSeq(q, 1, Len(q) - 1)) + q[Len(q)]

\* C14: among the orders of one calendar day the queue numbers are strictly
\* increasing in commit order (and so pairwise distinct): an order committed
\* before another order of the same day has the smaller queue number.
C14_QueueIncreasing ==
  \A i, j \in 1..Len(orders) :
     ( /\ i < j
       /\ orders[i].createdAt = orders[j].createdAt )
     => QueueValue(orders[i].queueNumber) < QueueValue(orders[j].queueNumber)

\* ------------------------------------------------------------- C15
\* C15: a confirmation whose code matches no order answers 404 in its first
\* step and leaves every product's stock and every order (status, closure
\* timestamp and all) as they were; it takes no further step.
C15_NotFoundNoEffect ==
  [][\A r \in ConfirmIds :
       ( /\ cfReq[r].pc = "idle"
         /\ cfReq'[r].pc # "idle"
         /\ \A k \in 1..Len(orders) : orders[k].code # cfReq'[r].code )
       => /\ cfReq'[r].pc = "done"
          /\ cfReq'[r].resp = [status |-> 404, body |-> "Not found"]
          /\ cfReq'[r].logged = "none"
          /\ product' = product
          /\ orders' = orders
          /\ carts' = carts
    ]_vars

\* A confirmation of an unknown code was answered 404 while an order exists:
\* that order is still AWAITING_PAYMENT, not closed, and no stock has moved.
C15_Witness ==
  \E r \in ConfirmIds :
     /\ cfReq[r].resp = [status |-> 404, body |-> "Not found"]
     /\ cfReq[r].code = UnknownCode
     /\ Len(orders) >= 1
     /\ \A k \in 1..Len(orders) :
          /\ orders[k].status = "AWAITING_PAYMENT"
          /\ orders[k].closedAt = NoTime
     /\ \A p \in Products : product[p].stock = InitStock

\* ------------------------------------------------------------- C16
\* C16: a checkout of a customer who has no cart, or whose cart has no
\* lines, answers 409 "Keranjang kosong." in its first step, with no order
\* created, no cart created or deleted, no stock changed and no call of the
\* gateway (the request has ended).
C16_EmptyCartNoEffect ==
  [][\A r \in CheckoutIds :
       ( /\ coReq[r].pc = "idle"
         /\ coReq'[r].pc # "idle"
         /\ \/ carts[coReq'[r].user].id = 0
            \/ carts[coReq'[r].user].items = <<>> )
       => /\ coReq'[r].pc = "done"
          /\ coReq'[r].resp = [status |-> 409, body |-> "Keranjang kosong."]
          /\ coReq'[r].created = NoCreated
          /\ coReq'[r].logged = "none"
          /\ db' = db
    ]_vars

\* Both cases were refused: one customer's cart exists without lines, the
\* other customer has no cart, no order exists and no stock has moved.
C16_Witness ==
  \E r1, r2 \in CheckoutIds :
     /\ coReq[r1].resp = [status |-> 409, body |-> "Keranjang kosong."]
     /\ coReq[r2].resp = [status |-> 409, body |-> "Keranjang kosong."]
     /\ coReq[r1].user # coReq[r2].user
     /\ carts[coReq[r1].user].id # 0
     /\ carts[coReq[r1].user].items = <<>>
     /\ carts[coReq[r2].user].id = 0
     /\ orders = <<>>
     /\ \A p \in Products : product[p].stock = InitStock

\* ------------------------------------------------------------- C17
\* C17: a cart never holds two lines of one product, and every cart line
\* has a quantity of at least 1, also when add-to-cart requests of one
\* customer for one product run concurrently.
C17_OneLinePerProduct ==
  \A u \in Customers :
     /\ \A i, j \in 1..Len(carts[u].items) :
          i # j => carts[u].items[i].productId # carts[u].items[j].productId
     /\ \A i \in 1..Len(carts[u].items) : carts[u].items[i].qty >= 1

\* ------------------------------------------------------------- C18
\* The orders with this code, whoever owns them.
OrdersOfCode(code) == {k \in 1..Len(orders) : orders[k].code = code}

\* C18: the order detail answers 401 to a caller without identity; to a
\* customer it answers 200 with the order's code, status, total and items
\* only when an order of that code belongs to that customer; in every other
\* case it answers the one 404 { error: "Not found" }, the same whether the
\* code belongs to another customer's order or to no order at all.  The
\* request changes nothing in the store.
C18_OwnerOnly ==
  [][\A g \in GetIds :
       ( /\ getReq[g].pc = "idle"
         /\ getReq'[g].pc # "idle" )
       => LET caller == getReq'[g].caller
              code == getReq'[g].code
              resp == getReq'[g].resp
              owned == {k \in OrdersOfCode(code) : orders[k].customerId = caller}
          IN /\ db' = db
             /\ caller = Anonymous => resp.status = 401
             /\ ( /\ caller # Anonymous
                  /\ owned # {} )
                => \E k \in owned :
                     /\ resp.status = 200
                     /\ resp.body.code = orders[k].code
                     /\ resp.body.status = orders[k].status
                     /\ resp.body.total = orders[k].total
                     /\ Len(resp.body.items) = Len(orders[k].items)
                     /\ \A i \in 1..Len(orders[k].items) :
                          /\ resp.body.items[i].qty = orders[k].items[i].qty
                          /\ resp.body.items[i].price = orders[k].items[i].price
                          /\ resp.body.items[i].total = orders[k].items[i].total
             /\ ( /\ caller # Anonymous
                  /\ owned = {} )
                => resp = [status |-> 404, body |-> [error |-> "Not found"]]
             /\ resp.status = 200 => owned # {}
    ]_vars

\* A customer asked for the order of another customer and was answered 404.
C18_Witness ==
  \E g \in GetIds :
     /\ getReq[g].resp = [status |-> 404, body |-> [error |-> "Not found"]]
     /\ getReq[g].caller \in Customers
     /\ \E k \in OrdersOfCode(getReq[g].code) :
          /\ orders[k].customerId # getReq[g].caller
          /\ orders[k].id # PriorOrder.id

\* ------------------------------------------------------------- C19
\* The cart line fails validation against the catalog as it is.
LineFails(line) ==
  \/ ~product[line.productId].isActive
  \/ line.qty > product[line.productId].stock

\* C19: the validation takes the cart lines in their order and stops at the
\* first line that fails; that line decides the answer: "tidak tersedia"
\* when its product is inactive (whatever its stock), else "tidak
\* mencukupi" when its quantity exceeds the stock; a line whose quantity
\* equals the stock does not fail; and the checkout goes on to the commit
\* exactly when no line fails.
C19_FailFastInOrder ==
  [][\A r \in CheckoutIds :
       ( /\ coReq[r].pc = "idle"
         /\ coReq'[r].pc # "idle"
         /\ carts[coReq'[r].user].id # 0
         /\ carts[coReq'[r].user].items # <<>> )
       => LET lines == carts[coReq'[r].user].items
              failing == {i \in 1..Len(lines) : LineFails(lines[i])}
          IN /\ failing = {} <=> coReq'[r].pc = "count"
             /\ \A i \in failing :
                  (\A j \in failing : i <= j)
                  => /\ coReq'[r].pc = "done"
                     /\ coReq'[r].resp.status = 409
                     /\ coReq'[r].resp.body =
                          IF ~product[lines[i].productId].isActive
                          THEN "tidak tersedia"
                          ELSE "tidak mencukupi"
             /\ \A i \in 1..Len(lines) :
                  ( /\ product[lines[i].productId].isActive
                    /\ lines[i].qty = product[lines[i].productId].stock )
                  => i \notin failing
    ]_vars

\* A checkout was refused for the stock of its first line although its
\* second line's product is inactive.
C19_Witness ==
  \E r \in CheckoutIds :
     LET lines == carts[coReq[r].user].items IN
     /\ coReq[r].resp = [status |-> 409, body |-> "tidak mencukupi"]
     /\ Len(lines) = 2
     /\ product[lines[1].productId].isActive
     /\ lines[1].qty > product[lines[1].productId].stock
     /\ ~product[lines[2].productId].isActive

\* ------------------------------------------------------------- C20
\* C20: no step of a checkout, failing or succeeding, and no step of an
\* add-to-cart changes any product's stock; a step that changes a stock is
\* the commit of a payment confirmation (which had read its order as not
\* PAID), and it only lowers stock.
C20_CheckoutKeepsStock ==
  [][/\ \A r \in CheckoutIds : coReq'[r] # coReq[r] => Stocks' = Stocks
     /\ \A r \in AddIds : addReq'[r] # addReq[r] => Stocks' = Stocks
     /\ Len(orders') # Len(orders) => Stocks' = Stocks
     /\ Stocks' # Stocks
          => /\ \E r \in ConfirmIds :
                  /\ cfReq[r].pc = "tx"
                  /\ cfReq'[r].resp = [status |-> 200, body |-> "ok"]
             /\ \A p \in Products : product'[p].stock <= product[p].stock
    ]_vars

\* A checkout has committed its order and answered 200, and every stock,
\* that of the ordered products included, is what it was at the start.
C20_Witness ==
  \E r \in CheckoutIds :
     /\ coReq[r].resp.status = 200
     /\ \E k \in 1..Len(orders) :
          /\ orders[k].id = coReq[r].created.id
          /\ Len(orders[k].items) >= 1
          /\ \A i \in 1..Len(orders[k].items) :
               product[orders[k].items[i].productId].stock = InitStock
     /\ \A p \in Products : product[p].stock = InitStock

\* ------------------------------------------------------------- C21
\* C21: a confirmation that has read its order as AWAITING_PAYMENT never
\* waits for, or fails on, the stock: whatever the stock, the update of its
\* next line can be staged as soon as the row is free, and the commit can
\* be taken once every line is staged; the commit answers { ok: true },
\* leaves the order PAID and subtracts every line's quantity, also below
\* zero; and no confirmation ends with an answer other than 404, already,
\* ok, or the 500 of a failed transaction.
C21_ConfirmUnconditional ==
  [][\A r \in ConfirmIds :
       /\ ( /\ cfReq[r].pc = "tx"
            /\ cfReq[r].i <= Len(cfReq[r].items)
            /\ \A r2 \in ConfirmIds \ {r} :
                 cfReq[r].items[cfReq[r].i].productId \notin cfReq[r2].locked )
          => ENABLED ConfirmDecrement(r)
       /\ ( /\ cfReq[r].pc = "tx"
            /\ cfReq[r].i > Len(cfReq[r].items) )
          => ENABLED ConfirmCommit(r)
       /\ ( /\ cfReq[r].pc = "tx"
            /\ cfReq'[r].resp.body = "ok" )
          => LET k == CHOOSE k \in 1..Len(orders) : orders[k].code = cfReq[r].code IN
             /\ cfReq'[r].resp.status = 200
             /\ orders'[k].status = "PAID"
             /\ \A p \in Products :
                  product'[p].stock = product[p].stock - OrderQty(orders[k], p)
       /\ cfReq'[r].pc = "done"
          => \/ cfReq'[r].resp = [status |-> 404, body |-> "Not found"]
             \/ cfReq'[r].resp = [status |-> 200, body |-> "already"]
             \/ cfReq'[r].resp = [status |-> 200, body |-> "ok"]
             \/ /\ cfReq'[r].resp = [status |-> 500, body |-> "Server error"]
                /\ cfReq'[r].logged = "tx"
    ]_vars

\* A confirmation answered ok and its order is PAID although the stock of
\* one of its products did not cover the line: that stock is now negative.
C21_Witness ==
  \E r \in ConfirmIds :
     /\ cfReq[r].resp = [status |-> 200, body |-> "ok"]
     /\ \E k \in 1..Len(orders) :
          /\ orders[k].code = cfReq[r].code
          /\ orders[k].status = "PAID"
          /\ \E p \in Products :
               /\ OrderQty(orders[k], p) > 0
               /\ product[p].stock < 0

\* ------------------------------------------------------------- C22
\* The checkout chose CASHLESS and went to the gateway.
WentToGateway(c) ==
  /\ c.pc = "done"
  /\ \/ c.resp = [status |-> 200, body |-> "CASHLESS"]
     \/ c.logged = "gateway"

\* C22: a request goes to the payment gateway only in the token step of a
\* CASHLESS checkout whose order is already committed; it carries the
\* committed order's total as gross amount and, as transaction id, the
\* order's code, a hyphen and the first 8 characters of the order's id; and
\* every request sent belongs to such a checkout, so none belongs to a CASH
\* checkout or to a checkout that failed validation or commit.
C22_GatewayAfterCommit ==
  [][/\ snap' # snap
          => \E r \in CheckoutIds :
               /\ coReq[r].pc = "pay"
               /\ coReq[r].pay = "CASHLESS"
               /\ coReq'[r].pc = "done"
               /\ orders' = orders
               /\ \E k \in 1..Len(orders) :
                    /\ orders[k].id = coReq[r].created.id
                    /\ \E call \in snap' \ snap :
                         /\ snap' = snap \cup {call}
                         /\ call.gross_amount = orders[k].total
                         /\ Len(call.order_id) = Len(orders[k].code) + 1 + 8
                         /\ SubSeq(call.order_id, 1, Len(orders[k].code)) = orders[k].code
                         /\ call.order_id[Len(orders[k].code) + 1] = "-"
                         /\ \A i \in 1..8 :
                              call.order_id[Len(orders[k].code) + 1 + i] = orders[k].id[i]
     /\ \A call \in snap' :
          \E r \in CheckoutIds :
             /\ WentToGateway(coReq'[r])
             /\ coReq'[r].created.id = call.custom_field1
             /\ \E k \in 1..Len(orders') : orders'[k].id = call.custom_field1
     /\ \A r \in CheckoutIds :
          /\ coReq'[r].pc = "pay" => coReq'[r].pay = "CASHLESS"
          /\ ( /\ coReq'[r].pc = "done"
               /\ ~WentToGateway(coReq'[r]) )
             => \A call \in snap' : call.custom_field1 # coReq'[r].created.id
    ]_vars

\* One checkout paid CASHLESS and one CASH: the gateway got one request,
\* that of the CASHLESS order.
C22_Witness ==
  \E r1, r2 \in CheckoutIds :
     /\ coReq[r1].resp = [status |-> 200, body |-> "CASHLESS"]
     /\ coReq[r2].resp = [status |-> 200, body |-> "CASH"]
     /\ Cardinality(snap) = 1
     /\ \A call \in snap :
          /\ call.custom_field1 = coReq[r1].created.id
          /\ call.gross_amount = coReq[r1].created.total

\* ------------------------------------------------------------- C23
\* The step commits the order of checkout r.
Commits(r) ==
  /\ coReq[r].pc = "delete"
  /\ coReq'[r].pc # "delete"
  /\ Len(orders') = Len(orders) + 1

\* The (product, quantity) pairs of a sequence of lines.
LinePairs(lines) == {<<lines[i].productId, lines[i].qty>> : i \in 1..Len(lines)}

\* C23: a cart becomes at most one order: a checkout commits only while the
\* cart whose snapshot it read is still the customer's cart; once another
\* checkout of the customer has committed and deleted that cart, its own
\* cart deletion fails and its order is rolled back.  (Carts are deleted by
\* checkout commits only, so a commit on another cart than the one read is
\* a second order for a cart that already became one.)
C23_OneOrderPerCart ==
  [][\A r \in CheckoutIds :
       Commits(r) => carts[coReq[r].user].id = coReq[r].cartId
    ]_vars

\* ------------------------------------------------------------- C24
\* C24: the order a checkout commits holds the cart as it is at the commit:
\* when the commit deletes the very cart whose snapshot the checkout read,
\* the (product, quantity) pairs of the order's lines are those of the
\* cart's lines at that moment, so no line added since the snapshot is
\* deleted without being ordered.
C24_OrderIsCartAtCommit ==
  [][\A r \in CheckoutIds :
       ( /\ Commits(r)
         /\ carts[coReq[r].user].id = coReq[r].cartId )
       => LinePairs(Appended.items) = LinePairs(carts[coReq[r].user].items)
    ]_vars

\* ------------------------------------------------------------- C25
\* The quantity of product p in the customer's cart.
CartQty(cs, u, p) ==
  SumSeq([i \in 1..Len(cs[u].items) |->
            IF cs[u].items[i].productId = p THEN cs[u].items[i].qty ELSE 0])

\* C25: an add-to-cart that answers 200 raises the quantity of its product
\* in the customer's cart by exactly its own quantity, whatever other
\* add-to-cart requests did since it read the line; so two concurrent adds
\* of a and b to a line of quantity q leave q + a + b.
C25_NoLostQuantity ==
  [][\A r \in AddIds :
       ( /\ addReq[r].pc = "write"
         /\ addReq'[r].resp.status = 200 )
       => CartQty(carts', addReq[r].user, addReq[r].productId)
            = CartQty(carts, addReq[r].user, addReq[r].productId) + addReq[r].qty
    ]_vars

\* ------------------------------------------------------------- C26
\* C26: a step of a payment confirmation leaves all carts, the number of
\* orders and every product's price and active flag as they were; its
\* commit changes, of the orders, only the status and closure timestamp of
\* its own order, and, of the stocks, only those of the products that
\* order's lines reference; its other steps change no order and no stock;
\* and an order has a closure timestamp exactly when it is PAID.
C26_ConfirmFrame ==
  [][/\ \A r \in ConfirmIds :
          cfReq'[r] # cfReq[r]
          => /\ carts' = carts
             /\ nextCartId' = nextCartId
             /\ Len(orders') = Len(orders)
             /\ \A p \in Products :
                  /\ product'[p].price = product[p].price
                  /\ product'[p].isActive = product[p].isActive
             /\ IF cfReq[r].pc = "tx" /\ cfReq'[r].resp.body = "ok"
                THEN \E k \in 1..Len(orders) :
                       /\ orders[k].code = cfReq[r].code
                       /\ \A j \in 1..Len(orders) \ {k} : orders'[j] = orders[j]
                       /\ orders'[k] = [orders[k] EXCEPT
                                          !.status = "PAID",
                                          !.closedAt = orders'[k].closedAt]
                       /\ orders'[k].closedAt # NoTime
                       /\ \A p \in Products :
                            OrderQty(orders[k], p) = 0 => product'[p] = product[p]
                ELSE /\ product' = product
                     /\ orders' = orders
     /\ \A k \in 1..Len(orders') :
          orders'[k].closedAt # NoTime <=> orders'[k].status = "PAID"
    ]_vars

\* An order of product A alone is PAID and closed; the stock of B is what
\* it was, another order is still AWAITING_PAYMENT and not closed.
C26_Witness ==
  \E k1, k2 \in 1..Len(orders) :
     /\ orders[k1].status = "PAID"
     /\ orders[k1].closedAt # NoTime
     /\ OrderQty(orders[k1], "A") > 0
     /\ OrderQty(orders[k1], "B") = 0
     /\ product["A"].stock = InitStock - OrderQty(orders[k1], "A")
     /\ product["B"].stock = InitStock
     /\ orders[k2].status = "AWAITING_PAYMENT"
     /\ orders[k2].closedAt = NoTime
     /\ OrderQty(orders[k2], "B") > 0

====
